---- MODULE Spec2Model ----
(***************************************************************************)
(* Wearable 6MWT firmware (src/firmware_wearable_6mwt/src/main.cpp):       *)
(* the two-threshold step detector of loop() and the BLE connection        *)
(* callbacks of MyServerCallbacks, which run on the BLE host task and      *)
(* interleave with loop() at the points where loop() reads or publishes    *)
(* through the shared flag deviceConnected.                                *)
(*                                                                         *)
(* Magnitudes are in tenths of m/s^2 (12.0 -> 120, 9.5 -> 95).             *)
(* Times are unsigned 32-bit millisecond values, kept as <<high, low>>     *)
(* pairs of 16-bit words so that the modular subtraction of line 115 is    *)
(* computed at its real width.                                             *)
(***************************************************************************)
EXTENDS Integers, Sequences, FiniteSets, TLC

VARIABLES
    stepCount,          \* int stepCount                      (line 14)
    highPeakDetected,   \* bool highPeakDetected              (line 17)
    lastStepTime,       \* unsigned long lastStepTime         (line 18)
    deviceConnected,    \* bool deviceConnected               (line 24)
    charValue,          \* value held by pDistanceCharacteristic
    notifications,      \* payloads handed to notify(), oldest first
    advStarts,          \* calls of getAdvertising()->start() made by onDisconnect
    discEvents,         \* invocations of onDisconnect
    clock,              \* millis()
    pc,                 \* position of loop()
    cbpc,               \* position of the BLE callback task
    magnitude,          \* loop() local, line 110
    currentTime,        \* loop() local, line 112
    samples,            \* number of loop() iterations started
    iter,               \* what the current iteration of loop() did
    allBelowHigh,       \* history: no sample so far was above the high threshold
    armCount,           \* history: number of arming transitions (line 116)
    episode,            \* history: transport events seen during the current arm
    advertising,        \* the device is advertising (started at line 97)
    lastEvent,          \* history: the most recent callback invoked
    wraps,              \* history: times millis() has wrapped past 2^32 - 1
    lastStepWraps       \* history: wraps when lastStepTime was last written

vars == <<stepCount, highPeakDetected, lastStepTime, deviceConnected, charValue,
          notifications, advStarts, discEvents, clock, pc, cbpc, magnitude,
          currentTime, samples, iter, allBelowHigh, armCount, episode,
          advertising, lastEvent, wraps, lastStepWraps>>

detectorVars == <<stepCount, highPeakDetected, lastStepTime>>

-----------------------------------------------------------------------------
(* Program constants *)

ACCEL_THRESHOLD_HIGH == 120

ACCEL_THRESHOLD_LOW == 95

DEBOUNCE_TIME_MS == 350

\* One 16-bit half of an unsigned long (32 bits on the target).
Word == 65536

(* Bounds of the model *)

MaxSamples == 5

MaxDisconnects == 2

-----------------------------------------------------------------------------
(* Unsigned 32-bit arithmetic on <<high, low>> pairs *)

U32(n) == <<(n \div Word) % Word, n % Word>>

U32Add(a, b) ==
    LET lo == a[2] + b[2]
    IN  <<(a[1] + b[1] + (lo \div Word)) % Word, lo % Word>>

U32Sub(a, b) ==
    LET borrow == IF a[2] < b[2] THEN 1 ELSE 0
    IN  <<(a[1] - b[1] - borrow + Word) % Word, (a[2] - b[2] + Word) % Word>>

\* a > n, for an int n in 0..65535 converted to unsigned long
U32GtInt(a, n) == a[1] > 0 \/ a[2] > n

\* a > b
U32Gt(a, b) == a[1] > b[1] \/ (a[1] = b[1] /\ a[2] > b[2])

\* 1 when a + b passes 2^32 - 1, else 0
U32Carry(a, b) == (a[1] + b[1] + ((a[2] + b[2]) \div Word)) \div Word

-----------------------------------------------------------------------------
(* Inputs *)

\* Results of sqrt(ax*ax + ay*ay + az*az): below the low threshold, on it,
\* on the high threshold, above it.
Magnitudes == {80, 95, 120, 130}

\* Time between two reads of millis() by consecutive iterations.  The last
\* value, 2^32 - 100, stands for a long run of iterations whose samples lie
\* in the dead band and change nothing but the clock; it lets millis() wrap,
\* and lets a step fall within DEBOUNCE_TIME_MS before the wrap.
Deltas == {U32(50), U32(400), <<65535, 65436>>}

\* millis() at the first iteration of loop(): setup() takes from a few
\* milliseconds to more than three seconds.
StartTimes == {U32(0), U32(1000)}

-----------------------------------------------------------------------------
(* The payload of lines 135-139 *)

Encode_BigEndian(c) ==
    << (c \div 16777216) % 256, (c \div 65536) % 256, (c \div 256) % 256, c % 256 >>

Encode(c) ==
    << c % 256, (c \div 256) % 256, (c \div 65536) % 256, (c \div 16777216) % 256 >>

Decode(b) == b[1] + 256 * b[2] + 65536 * b[3] + 16777216 * b[4]

-----------------------------------------------------------------------------
(* The detector's two tests *)

ArmCondition_NoDebounce(m, cur) ==
    m > ACCEL_THRESHOLD_HIGH /\ ~highPeakDetected

ArmCondition_Inclusive(m, cur) ==
    /\ m >= ACCEL_THRESHOLD_HIGH /\ ~highPeakDetected
    /\ U32GtInt(U32Sub(cur, lastStepTime), DEBOUNCE_TIME_MS)

ArmCondition_AbsoluteCompare(m, cur) ==
    /\ m > ACCEL_THRESHOLD_HIGH /\ ~highPeakDetected
    /\ U32Gt(cur, U32Add(lastStepTime, U32(DEBOUNCE_TIME_MS)))

\* lines 114-115
ArmCondition(m, cur) ==
    /\ m > ACCEL_THRESHOLD_HIGH /\ ~highPeakDetected
    /\ U32GtInt(U32Sub(cur, lastStepTime), DEBOUNCE_TIME_MS)

ConfirmCondition_Unarmed(armed, m) == m < ACCEL_THRESHOLD_LOW

ConfirmCondition_Inclusive(armed, m) == armed /\ m <= ACCEL_THRESHOLD_LOW

ConfirmCondition_Debounced(armed, m) ==
    /\ armed /\ m < ACCEL_THRESHOLD_LOW
    /\ U32GtInt(U32Sub(clock, lastStepTime), DEBOUNCE_TIME_MS)

\* line 120; armed is highPeakDetected as lines 114-118 left it
ConfirmCondition(armed, m) == armed /\ m < ACCEL_THRESHOLD_LOW

ShouldPublish_Always == TRUE

\* line 132
ShouldPublish == deviceConnected

-----------------------------------------------------------------------------
(* Initial state: the globals of lines 14-24 after setup() *)

\* armed: line 116 was taken; stepped: line 120 was taken; connAtStep:
\* deviceConnected at that moment; withinDebounce: currentTime - lastStepTime
\* was at most DEBOUNCE_TIME_MS at that moment; checked, sawConnected: line
\* 132 was reached, and what it read; sent: calls of notify().
NoIter == [armed |-> FALSE, stepped |-> FALSE, connAtStep |-> FALSE,
           withinDebounce |-> FALSE, checked |-> FALSE, sawConnected |-> FALSE,
           sent |-> 0]

\* start: millis() at the first read; count: the steps counted so far
InitWith(start, count) ==
    /\ stepCount = count
    /\ highPeakDetected = FALSE
    /\ lastStepTime = U32(0)
    /\ deviceConnected = FALSE
    /\ charValue = << >>
    /\ notifications = << >>
    /\ advStarts = 0
    /\ discEvents = 0
    /\ clock = start
    /\ pc = "sample"
    /\ cbpc = "none"
    /\ magnitude = 0
    /\ currentTime = U32(0)
    /\ samples = 0
    /\ iter = NoIter
    /\ allBelowHigh = TRUE
    /\ armCount = count
    /\ episode = "none"
    /\ advertising = TRUE
    /\ lastEvent = "none"
    /\ wraps = 0
    /\ lastStepWraps = 0

InitAt(start) == InitWith(start, 0)

Init == \E start \in StartTimes : InitAt(start)

-----------------------------------------------------------------------------
(* loop() *)

\* lines 103-129: read the sensor and the clock, arm, confirm.
Sample(m) ==
    /\ pc = "sample"
    /\ LET arm     == ArmCondition(m, clock)
           armed   == highPeakDetected \/ arm
           confirm == ConfirmCondition(armed, m)
       IN  /\ magnitude' = m
           /\ currentTime' = clock
           /\ stepCount' = IF confirm THEN stepCount + 1 ELSE stepCount
           /\ lastStepTime' = IF confirm THEN clock ELSE lastStepTime
           /\ highPeakDetected' = IF confirm THEN FALSE ELSE armed
           /\ pc' = IF confirm THEN "check" ELSE "delay"
           /\ iter' = [NoIter EXCEPT !.armed = arm,
                                     !.stepped = confirm,
                                     !.connAtStep = confirm /\ deviceConnected,
                                     !.withinDebounce = confirm /\
                                        ~U32GtInt(U32Sub(clock, lastStepTime),
                                                  DEBOUNCE_TIME_MS)]
           /\ armCount' = IF arm THEN armCount + 1 ELSE armCount
           /\ episode' = IF arm THEN "armed" ELSE episode
           /\ lastStepWraps' = IF confirm THEN wraps ELSE lastStepWraps
    /\ samples' = samples + 1
    /\ allBelowHigh' = (allBelowHigh /\ m <= ACCEL_THRESHOLD_HIGH)
    /\ UNCHANGED <<deviceConnected, charValue, notifications, advStarts,
                   discEvents, clock, cbpc, advertising, lastEvent, wraps>>

\* line 132
CheckConnected ==
    /\ pc = "check"
    /\ iter' = [iter EXCEPT !.checked = TRUE, !.sawConnected = deviceConnected]
    /\ pc' = IF ShouldPublish THEN "setValue" ELSE "delay"
    /\ UNCHANGED <<stepCount, highPeakDetected, lastStepTime, deviceConnected,
                   charValue, notifications, advStarts, discEvents, clock, cbpc,
                   magnitude, currentTime, samples, allBelowHigh, armCount,
                   episode, advertising, lastEvent, wraps, lastStepWraps>>

\* lines 135-142
SetValue ==
    /\ pc = "setValue"
    /\ charValue' = Encode(stepCount)
    /\ pc' = "notify"
    /\ UNCHANGED <<stepCount, highPeakDetected, lastStepTime, deviceConnected,
                   notifications, advStarts, discEvents, clock, cbpc, magnitude,
                   currentTime, samples, iter, allBelowHigh, armCount, episode,
                   advertising, lastEvent, wraps, lastStepWraps>>

Notify_ClearsFlag ==
    /\ pc = "notify"
    /\ notifications' = Append(notifications, charValue)
    /\ iter' = [iter EXCEPT !.sent = @ + 1]
    /\ deviceConnected' = FALSE
    /\ pc' = "delay"
    /\ UNCHANGED <<stepCount, highPeakDetected, lastStepTime, charValue,
                   advStarts, discEvents, clock, cbpc, magnitude, currentTime,
                   samples, allBelowHigh, armCount, episode, advertising,
                   lastEvent, wraps, lastStepWraps>>

Notify_Twice ==
    /\ pc = "notify"
    /\ notifications' = Append(Append(notifications, charValue), charValue)
    /\ iter' = [iter EXCEPT !.sent = @ + 1]
    /\ pc' = "delay"
    /\ UNCHANGED <<stepCount, highPeakDetected, lastStepTime, deviceConnected,
                   charValue, advStarts, discEvents, clock, cbpc, magnitude,
                   currentTime, samples, allBelowHigh, armCount, episode,
                   advertising, lastEvent, wraps, lastStepWraps>>

\* line 143
Notify ==
    /\ pc = "notify"
    /\ notifications' = Append(notifications, charValue)
    /\ iter' = [iter EXCEPT !.sent = @ + 1]
    /\ pc' = "delay"
    /\ UNCHANGED <<stepCount, highPeakDetected, lastStepTime, deviceConnected,
                   charValue, advStarts, discEvents, clock, cbpc, magnitude,
                   currentTime, samples, allBelowHigh, armCount, episode,
                   advertising, lastEvent, wraps, lastStepWraps>>

\* line 148, and the return to line 103
Delay(d) ==
    /\ pc = "delay"
    /\ clock' = U32Add(clock, d)
    /\ wraps' = wraps + U32Carry(clock, d)
    /\ pc' = "sample"
    /\ iter' = NoIter
    /\ UNCHANGED <<stepCount, highPeakDetected, lastStepTime, deviceConnected,
                   charValue, notifications, advStarts, discEvents, cbpc,
                   magnitude, currentTime, samples, allBelowHigh, armCount,
                   episode, advertising, lastEvent, lastStepWraps>>

-----------------------------------------------------------------------------
(* MyServerCallbacks, on the BLE task *)

OnConnect_Replays ==
    /\ cbpc = "none"
    /\ deviceConnected' = TRUE
    /\ charValue' = Encode(stepCount)
    /\ notifications' = IF deviceConnected THEN notifications
                        ELSE Append(notifications, Encode(stepCount))
    /\ episode' = IF highPeakDetected /\ episode = "disc" THEN "reconn" ELSE episode
    /\ advertising' = FALSE
    /\ lastEvent' = "connect"
    /\ UNCHANGED <<wraps, lastStepWraps>>
    /\ UNCHANGED <<stepCount, highPeakDetected, lastStepTime, advStarts,
                   discEvents, clock, pc, cbpc, magnitude, currentTime, samples,
                   iter, allBelowHigh, armCount>>

OnConnect_ResetsDetector ==
    /\ cbpc = "none"
    /\ deviceConnected' = TRUE
    /\ highPeakDetected' = FALSE
    /\ episode' = IF highPeakDetected /\ episode = "disc" THEN "reconn" ELSE episode
    /\ advertising' = FALSE
    /\ lastEvent' = "connect"
    /\ UNCHANGED <<wraps, lastStepWraps>>
    /\ UNCHANGED <<stepCount, lastStepTime, charValue, notifications, advStarts,
                   discEvents, clock, pc, cbpc, magnitude, currentTime, samples,
                   iter, allBelowHigh, armCount>>

\* lines 33-36; the link layer stops advertising when a central connects,
\* which is why line 41 has to start it again
OnConnect ==
    /\ cbpc = "none"
    /\ deviceConnected' = TRUE
    /\ episode' = IF highPeakDetected /\ episode = "disc" THEN "reconn" ELSE episode
    /\ advertising' = FALSE
    /\ lastEvent' = "connect"
    /\ UNCHANGED <<wraps, lastStepWraps>>
    /\ UNCHANGED <<stepCount, highPeakDetected, lastStepTime, charValue,
                   notifications, advStarts, discEvents, clock, pc, cbpc,
                   magnitude, currentTime, samples, iter, allBelowHigh, armCount>>

OnDisconnect_ResetsCount ==
    /\ cbpc = "none"
    /\ discEvents < MaxDisconnects
    /\ discEvents' = discEvents + 1
    /\ deviceConnected' = FALSE
    /\ stepCount' = 0
    /\ cbpc' = "advertise"
    /\ episode' = IF highPeakDetected THEN "disc" ELSE "none"
    /\ lastEvent' = IF lastEvent \in {"disconnect", "disconnectAgain"}
                     THEN "disconnectAgain" ELSE "disconnect"
    /\ UNCHANGED <<advertising, wraps, lastStepWraps>>
    /\ UNCHANGED <<highPeakDetected, lastStepTime, charValue, notifications,
                   advStarts, clock, pc, magnitude, currentTime, samples, iter,
                   allBelowHigh, armCount>>

OnDisconnect_OnlyIfConnected ==
    /\ cbpc = "none"
    /\ discEvents < MaxDisconnects
    /\ discEvents' = discEvents + 1
    /\ cbpc' = IF deviceConnected THEN "advertise" ELSE "none"
    /\ deviceConnected' = FALSE
    /\ episode' = IF highPeakDetected THEN "disc" ELSE "none"
    /\ lastEvent' = IF lastEvent \in {"disconnect", "disconnectAgain"}
                     THEN "disconnectAgain" ELSE "disconnect"
    /\ UNCHANGED <<advertising, wraps, lastStepWraps>>
    /\ UNCHANGED <<stepCount, highPeakDetected, lastStepTime, charValue,
                   notifications, advStarts, clock, pc, magnitude, currentTime,
                   samples, iter, allBelowHigh, armCount>>

\* lines 38-40
OnDisconnect ==
    /\ cbpc = "none"
    /\ discEvents < MaxDisconnects
    /\ discEvents' = discEvents + 1
    /\ deviceConnected' = FALSE
    /\ cbpc' = "advertise"
    /\ episode' = IF highPeakDetected THEN "disc" ELSE "none"
    /\ lastEvent' = IF lastEvent \in {"disconnect", "disconnectAgain"}
                     THEN "disconnectAgain" ELSE "disconnect"
    /\ UNCHANGED <<advertising, wraps, lastStepWraps>>
    /\ UNCHANGED <<stepCount, highPeakDetected, lastStepTime, charValue,
                   notifications, advStarts, clock, pc, magnitude, currentTime,
                   samples, iter, allBelowHigh, armCount>>

\* line 41
RestartAdvertising ==
    /\ cbpc = "advertise"
    /\ advStarts' = advStarts + 1
    /\ advertising' = TRUE
    /\ cbpc' = "none"
    /\ UNCHANGED <<stepCount, highPeakDetected, lastStepTime, deviceConnected,
                   charValue, notifications, discEvents, clock, pc, magnitude,
                   currentTime, samples, iter, allBelowHigh, armCount, episode,
                   lastEvent, wraps, lastStepWraps>>

-----------------------------------------------------------------------------
(* Specifications *)

SampleAny == samples < MaxSamples /\ \E m \in Magnitudes : Sample(m)

DelayAny == \E d \in Deltas : Delay(d)

Next ==
    \/ SampleAny
    \/ CheckConnected
    \/ SetValue
    \/ Notify
    \/ DelayAny
    \/ OnConnect
    \/ OnDisconnect
    \/ RestartAdvertising

Spec == Init /\ [][Next]_vars

\* The scripted run of the detector: the magnitudes 5, 13, 13, 8, 5, 13, 8
\* read 50 ms apart, from several values of millis() at the first read,
\* with the transport free to connect and disconnect.
ScenarioMagnitudes == <<50, 130, 130, 80, 50, 130, 80>>

ScenarioStarts ==
    {U32(0), U32(100), U32(150), U32(250), U32(300), U32(1000), <<65535, 65436>>}

InitScenario == \E start \in ScenarioStarts : InitAt(start)

ScriptedSample ==
    /\ samples < Len(ScenarioMagnitudes)
    /\ Sample(ScenarioMagnitudes[samples + 1])

ScriptedDelay == Delay(U32(50))

NextScenario ==
    \/ ScriptedSample
    \/ CheckConnected
    \/ SetValue
    \/ Notify
    \/ ScriptedDelay
    \/ OnConnect
    \/ OnDisconnect
    \/ RestartAdvertising

SpecScenario == InitScenario /\ [][NextScenario]_vars

\* The program picked up between two iterations of loop() after it has
\* counted some steps: the counts sit just below the byte boundaries of the
\* payload, which the next step crosses, up to just below the largest int.
EncodeCounts == {0, 255, 65535, 16777215, 2147483640}

InitEncode == \E count \in EncodeCounts : InitWith(U32(1000), count)

SpecEncode == InitEncode /\ [][Next]_vars

\* The detector of lines 114-129 driven directly, as a component whose
\* caller may hand it any float: the magnitudes of loop() and a negative
\* one, which sqrt() at line 110 never returns.
MalformedMagnitudes == {-10}

SampleFed ==
    samples < MaxSamples /\ \E m \in Magnitudes \cup MalformedMagnitudes : Sample(m)

NextFed ==
    \/ SampleFed
    \/ CheckConnected
    \/ SetValue
    \/ Notify
    \/ DelayAny
    \/ OnConnect
    \/ OnDisconnect
    \/ RestartAdvertising

SpecFed == Init /\ [][NextFed]_vars

-----------------------------------------------------------------------------
(* Shorthands for the properties *)

\* a step of loop() from line 103 through line 129
SampleStep == pc = "sample" /\ pc' # "sample"

\* a step of one of the two callbacks
CallbackStep ==
    deviceConnected' # deviceConnected \/ cbpc' # cbpc \/ discEvents' # discEvents

LastNotification == notifications[Len(notifications)]

Elapsed == U32Sub(currentTime, lastStepTime)

\* millis() at the first read of the scripted run, recovered from the
\* current read (reads are 50 ms apart)
ScenarioStart == U32Sub(currentTime, U32(50 * (samples - 1)))

\* the 2nd or the 3rd read of the scripted run is more than DEBOUNCE_TIME_MS
\* after the initial lastStepTime (0), so one of the first two 13s arms
ScenarioArmsEarly ==
    \/ U32GtInt(U32Add(ScenarioStart, U32(50)), DEBOUNCE_TIME_MS)
    \/ U32GtInt(U32Add(ScenarioStart, U32(100)), DEBOUNCE_TIME_MS)

\* the 6th read is more than DEBOUNCE_TIME_MS after the initial lastStepTime
ScenarioArmsLate == U32GtInt(U32Add(ScenarioStart, U32(250)), DEBOUNCE_TIME_MS)

-----------------------------------------------------------------------------
(* C1 *)

\* C1 as stated: the scripted run [5,13,13,8,5,13,8], 50 ms apart, records
\* exactly two steps, one at the 4th sample and one at the 7th.
C1_TwoStepsAtFourthAndSeventh ==
    /\ iter.stepped => samples \in {4, 7}
    /\ (samples = 7 /\ pc # "sample") => stepCount = 2

\* C1 amended: the scripted run records at most one step, never two.  When
\* the 2nd or 3rd read of millis() is more than 350 ms after the initial
\* lastStepTime of 0, the step is at the 4th sample, and the 13 of the 6th
\* sample, 100 ms after it, does not arm.  Otherwise nothing arms before the
\* 6th sample, and the step is at the 7th sample when the 6th read is more
\* than 350 ms after 0, and there is no step at all when it is not.
C1_AtMostOneStep ==
    /\ stepCount <= 1
    /\ iter.stepped => samples = (IF ScenarioArmsEarly THEN 4 ELSE 7)
    /\ samples < 4 => stepCount = 0
    /\ (samples >= 4 /\ ScenarioArmsEarly) => stepCount = 1
    /\ (samples \in 4..6 /\ ~ScenarioArmsEarly) => stepCount = 0
    /\ (samples = 7 /\ ~ScenarioArmsEarly) =>
           stepCount = (IF ScenarioArmsLate THEN 1 ELSE 0)

\* the whole script has run, with its one step at the 4th sample
C1_Witness ==
    samples = 7 /\ pc = "delay" /\ stepCount = 1 /\ ~iter.stepped /\ ScenarioArmsEarly

-----------------------------------------------------------------------------
(* C2 *)

\* C2 as stated: a step confirmed while deviceConnected is true is delivered
\* exactly once with the new count, a step confirmed while it is false is
\* never delivered, and nothing is delivered without a step.
C2_DeliveredIffConnectedAtStep ==
    pc = "delay" =>
        /\ iter.connAtStep =>
              iter.sent = 1 /\ LastNotification = Encode(stepCount)
        /\ ~iter.connAtStep => iter.sent = 0

\* C2 amended: an iteration of loop() that confirms a step and reads
\* deviceConnected true at line 132 makes exactly one delivery request
\* (setValue then notify) whose payload is the count just after the
\* increment; an iteration that reads it false, or confirms no step, makes
\* none, and no request is made at any other time (nothing is queued or
\* replayed).
C2_DeliveredIffConnectedAtCheck ==
    /\ [](/\ pc = "delay" =>
                iter.sent = (IF iter.stepped /\ iter.sawConnected THEN 1 ELSE 0)
          /\ pc # "delay" => iter.sent = 0
          /\ iter.sent = 1 => LastNotification = Encode(stepCount)
          /\ iter.checked => iter.stepped
          /\ Len(notifications) <= stepCount)
    /\ [][notifications' # notifications =>
            /\ iter.stepped /\ iter.sawConnected /\ iter.sent = 0
            /\ notifications' = Append(notifications, Encode(stepCount))
            /\ charValue = Encode(stepCount)]_vars

C2_Witness ==
    /\ pc = "delay" /\ iter.sent = 1
    /\ stepCount = 2 /\ notifications = <<Encode(2)>>

-----------------------------------------------------------------------------
(* C3 *)

\* C3 as stated, taken between iterations and after at least one step: a
\* read of the characteristic returns the 4-byte encoding of stepCount,
\* also for steps confirmed while no observer was subscribed.
C3_ReadReturnsStepCount ==
    (pc \in {"sample", "delay"} /\ stepCount > 0) => charValue = Encode(stepCount)

-----------------------------------------------------------------------------
(* C4 *)

\* C4 as stated: whenever loop() is about to call setValue or notify,
\* deviceConnected is true.
C4_FlagTrueAtDelivery ==
    pc \in {"setValue", "notify"} => deviceConnected

\* C4 amended: loop() calls setValue/notify only after reading
\* deviceConnected true at line 132 of the same iteration; a disconnect
\* between that read and the calls does not stop them.
C4_FlagTrueAtCheck ==
    /\ pc \in {"setValue", "notify"} => iter.checked /\ iter.sawConnected
    /\ iter.sent > 0 => iter.sawConnected

C4_Witness == pc = "notify" /\ ~deviceConnected /\ iter.sawConnected

-----------------------------------------------------------------------------
(* C5 *)

\* C5: as long as no sample has been strictly above the high threshold, the
\* detector has never armed and stepCount is still 0, whatever the
\* timestamps and the connect/disconnect events.
C5_NeverArmsBelowHigh ==
    allBelowHigh => ~highPeakDetected /\ stepCount = 0 /\ armCount = 0

C5_Witness ==
    /\ allBelowHigh /\ samples >= 3 /\ pc = "delay"
    /\ magnitude = ACCEL_THRESHOLD_HIGH
    /\ U32GtInt(Elapsed, DEBOUNCE_TIME_MS)
    /\ discEvents >= 1 /\ deviceConnected

-----------------------------------------------------------------------------
(* C6 *)

\* C6: a sample below the low threshold taken while armed adds exactly 1 to
\* stepCount, sets lastStepTime to that sample's timestamp, disarms and
\* emits one step event; stepCount changes in no other step, so it equals
\* the number of arms that have been confirmed.
C6_OneStepPerArmConfirmPair ==
    /\ [](stepCount = armCount - (IF highPeakDetected THEN 1 ELSE 0))
    /\ [][/\ (SampleStep /\ highPeakDetected /\ magnitude' < ACCEL_THRESHOLD_LOW) =>
                /\ stepCount' = stepCount + 1
                /\ lastStepTime' = currentTime'
                /\ ~highPeakDetected'
                /\ iter'.stepped /\ pc' = "check"
          /\ stepCount' # stepCount =>
                /\ SampleStep /\ highPeakDetected
                /\ magnitude' < ACCEL_THRESHOLD_LOW
                /\ stepCount' = stepCount + 1]_vars

C6_Witness ==
    iter.stepped /\ stepCount = 2 /\ armCount = 2 /\ lastStepTime = currentTime

-----------------------------------------------------------------------------
(* C7 *)

\* C7: while armed, a sample at or above the low threshold leaves the
\* detector armed, leaves stepCount and lastStepTime unchanged, emits no
\* event and does not arm a second time, however much time has passed.
C7_ArmIsLatch ==
    [][(SampleStep /\ highPeakDetected /\ magnitude' >= ACCEL_THRESHOLD_LOW) =>
            /\ highPeakDetected'
            /\ UNCHANGED <<stepCount, lastStepTime, armCount>>
            /\ ~iter'.stepped /\ pc' = "delay"]_vars

\* armed, a sample above the high threshold just read, and the clock has
\* wrapped to within the debounce period of lastStepTime: this sample cannot
\* have been the one that armed
C7_Witness ==
    /\ pc = "delay" /\ highPeakDetected /\ magnitude > ACCEL_THRESHOLD_HIGH
    /\ ~U32GtInt(Elapsed, DEBOUNCE_TIME_MS)

-----------------------------------------------------------------------------
(* C8 *)

\* C8: while armed, a sample below the low threshold confirms a step
\* whatever currentTime - lastStepTime is, values of at most
\* DEBOUNCE_TIME_MS included.
C8_ConfirmNotGated ==
    [][(SampleStep /\ highPeakDetected /\ magnitude' < ACCEL_THRESHOLD_LOW) =>
            /\ iter'.stepped
            /\ stepCount' = stepCount + 1
            /\ iter'.withinDebounce =
                  ~U32GtInt(U32Sub(currentTime', lastStepTime), DEBOUNCE_TIME_MS)]_vars

C8_Witness == iter.stepped /\ iter.withinDebounce

-----------------------------------------------------------------------------
(* C9 *)

\* C9: the callbacks change nothing of the detector or of loop(); after a
\* disconnect and a reconnect during one arm, deviceConnected is true again
\* and the step that confirms that arm is delivered with the new count.
C9_ReconnectWhileArmed ==
    /\ [][CallbackStep =>
            UNCHANGED <<detectorVars, armCount, pc, iter, magnitude, currentTime,
                        charValue, notifications>>]_vars
    /\ [](episode = "reconn" => deviceConnected)
    /\ []((episode = "reconn" /\ iter.stepped) =>
             /\ pc = "check" \/ iter.sawConnected
             /\ pc = "delay" => iter.sent = 1 /\ LastNotification = Encode(stepCount))

C9_Witness ==
    pc = "delay" /\ iter.stepped /\ episode = "reconn" /\ iter.sent = 1

-----------------------------------------------------------------------------
(* C10 *)

\* C10: every invocation of onDisconnect restarts advertising exactly once:
\* when no handler is running the two counts are equal, and while one is
\* between lines 39 and 41 it has one restart left to make.
C10_AdvertiseOncePerDisconnect ==
    /\ cbpc = "none" => advStarts = discEvents
    /\ cbpc = "advertise" => advStarts + 1 = discEvents

C10_Witness ==
    cbpc = "none" /\ discEvents = 2 /\ advStarts = 2 /\ ~deviceConnected

-----------------------------------------------------------------------------
(* C11 *)

\* C11 as stated: after onDisconnect has run twice in a row the flag is
\* false and advertising is active, and the second run has issued no
\* advertising restart of its own.
C11_SecondDisconnectIssuesNoRestart ==
    (lastEvent = "disconnectAgain" /\ cbpc = "none") =>
        /\ ~deviceConnected /\ advertising
        /\ advStarts < discEvents

\* C11 amended: onDisconnect run twice in a row leaves the same observable
\* state as run once (flag false, advertising active), and the second run
\* changes neither; but it does issue its own start() command, so the
\* commands issued still equal the invocations.
C11_SecondDisconnectSameState ==
    /\ (lastEvent \in {"disconnect", "disconnectAgain"} /\ cbpc = "none") =>
           ~deviceConnected /\ advertising
    /\ lastEvent = "disconnectAgain" =>
           /\ ~deviceConnected /\ advertising
           /\ discEvents >= 2
           /\ advStarts = discEvents - (IF cbpc = "advertise" THEN 1 ELSE 0)

C11_Witness ==
    lastEvent = "disconnectAgain" /\ cbpc = "none" /\ advStarts = 2 /\ advertising

-----------------------------------------------------------------------------
(* C12 *)

\* C12: the payload written at line 142 and notified at line 143 is exactly
\* 4 bytes, byte i (from 0) being floor(stepCount / 256^i) mod 256, and
\* reading it back little-endian gives stepCount; the count 1 is sent as
\* <<1, 0, 0, 0>>.
C12_PayloadLittleEndian ==
    /\ \A n \in 1..Len(notifications) :
          /\ Len(notifications[n]) = 4
          /\ \A i \in 1..4 : notifications[n][i] \in 0..255
    /\ (pc = "notify" \/ iter.sent = 1) =>
          /\ Len(charValue) = 4
          /\ \A i \in 0..3 : charValue[i + 1] = (stepCount \div (256 ^ i)) % 256
          /\ Decode(charValue) = stepCount
    /\ iter.sent = 1 =>
          /\ LastNotification = charValue
          /\ stepCount = 1 => LastNotification = <<1, 0, 0, 0>>

C12_Witness ==
    iter.sent = 1 /\ stepCount = 65536 /\ LastNotification = <<0, 0, 1, 0>>

-----------------------------------------------------------------------------
(* C13 *)

\* C13: stepCount is 0 before the first sample and never decreases; the
\* only step that changes it is the confirmation of lines 120-129, and no
\* connect or disconnect event touches it.
C13_StepCountMonotone ==
    /\ [](samples = 0 => stepCount = 0)
    /\ [][/\ stepCount' >= stepCount
          /\ stepCount' # stepCount =>
                /\ SampleStep /\ iter'.stepped
                /\ UNCHANGED <<deviceConnected, lastEvent, cbpc>>]_vars

\* two steps counted, then a disconnect and a connect, and the count stands
C13_Witness ==
    stepCount = 2 /\ episode = "none" /\ deviceConnected /\ ~highPeakDetected

-----------------------------------------------------------------------------
(* C14 *)

\* a step of onConnect that finds the flag false
ConnectStep == ~deviceConnected /\ deviceConnected'

\* C14: onConnect sets the flag and nothing else of the program: it sends no
\* notification, leaves the characteristic value alone, and changes neither
\* stepCount nor the detector nor the position of loop().
C14_ConnectOnlySetsFlag ==
    [][(ConnectStep \/ (lastEvent' = "connect" /\ lastEvent # "connect")) =>
          /\ deviceConnected'
          /\ UNCHANGED <<notifications, charValue, detectorVars, armCount,
                         advStarts, discEvents, pc, cbpc, iter, magnitude,
                         currentTime, clock, samples>>]_vars

\* connected after a step was taken while unsubscribed: nothing was sent
\* and nothing was written to the characteristic
C14_Witness ==
    /\ deviceConnected /\ lastEvent = "connect"
    /\ stepCount >= 1 /\ notifications = << >> /\ charValue = << >>
    /\ pc \in {"sample", "delay"}

-----------------------------------------------------------------------------
(* C15 *)

-----------------------------------------------------------------------------
(* C16 *)

\* C16 as stated: while no step has been recorded, an idle detector arms on
\* every sample above the high threshold, whatever millis() returns.
C16_ArmsBeforeFirstStep ==
    [][(SampleStep /\ stepCount = 0 /\ ~highPeakDetected
          /\ magnitude' > ACCEL_THRESHOLD_HIGH) => highPeakDetected']_vars

-----------------------------------------------------------------------------
(* C17 *)

\* C17: as long as millis() has not wrapped, the detector arms after a
\* recorded step only when the clock reads more than DEBOUNCE_TIME_MS past
\* lastStepTime, and so each step after the first is recorded more than
\* DEBOUNCE_TIME_MS after the one before it.
C17_DebounceBoundsStepRate ==
    /\ []((wraps = 0 /\ iter.stepped /\ stepCount >= 2) => ~iter.withinDebounce)
    /\ [][(SampleStep /\ wraps = 0 /\ stepCount >= 1 /\ iter'.armed) =>
             /\ U32Carry(lastStepTime, U32(DEBOUNCE_TIME_MS)) = 0
             /\ U32Gt(currentTime', U32Add(lastStepTime, U32(DEBOUNCE_TIME_MS)))]_vars

C17_Witness ==
    wraps = 0 /\ iter.stepped /\ stepCount = 2 /\ ~iter.withinDebounce

-----------------------------------------------------------------------------
(* C18 *)

\* C18: deviceConnected is true exactly when the most recent callback was
\* onConnect (false before any callback), and the only steps that change it
\* are callback steps: loop() never writes it.
C18_FlagFollowsLastEvent ==
    /\ [](deviceConnected = (lastEvent = "connect"))
    /\ [][deviceConnected' # deviceConnected =>
             /\ lastEvent' # lastEvent
             /\ UNCHANGED <<pc, iter, notifications, charValue>>]_vars

\* connected, disconnected and connected again, and loop() has published
C18_Witness ==
    deviceConnected /\ discEvents >= 1 /\ iter.sent = 1 /\ lastEvent = "connect"

-----------------------------------------------------------------------------
(* C19 *)

\* C19: the delivery requests made so far are at most stepCount, the value
\* last written to the characteristic decodes to at most stepCount, and the
\* notified counts are strictly increasing.
C19_NotifiedCountsIncrease ==
    /\ Len(notifications) <= stepCount
    /\ charValue # << >> => Decode(charValue) \in 1..stepCount
    /\ \A i, j \in 1..Len(notifications) :
          i < j => Decode(notifications[i]) < Decode(notifications[j])

C19_Witness ==
    /\ Len(notifications) = 2
    /\ Decode(notifications[1]) = 1 /\ Decode(notifications[2]) = 2

-----------------------------------------------------------------------------
(* C20 *)

\* the true time since lastStepTime was written is below 2^32 ms: millis()
\* has not wrapped since and has not gone back, or has wrapped once and not
\* yet come round to lastStepTime
ElapsedFits ==
    \/ wraps = lastStepWraps /\ ~U32Gt(lastStepTime, clock)
    \/ wraps = lastStepWraps + 1 /\ U32Gt(lastStepTime, clock)

\* the true time since lastStepTime was written is more than
\* DEBOUNCE_TIME_MS, compared on (wraps, millis()) without any modular
\* arithmetic
TrueElapsedExceedsDebounce ==
    LET due     == U32Add(lastStepTime, U32(DEBOUNCE_TIME_MS))
        dueWrap == lastStepWraps + U32Carry(lastStepTime, U32(DEBOUNCE_TIME_MS))
    IN  wraps > dueWrap \/ (wraps = dueWrap /\ U32Gt(clock, due))

\* C20: when less than 2^32 ms of true time have passed since lastStepTime
\* was written, a sample above the high threshold read by an idle detector
\* arms exactly when that true time exceeds DEBOUNCE_TIME_MS, also when
\* millis() has wrapped in between.
C20_ModularDebounce ==
    [][(SampleStep /\ ~highPeakDetected /\ magnitude' > ACCEL_THRESHOLD_HIGH
          /\ ElapsedFits) =>
          (highPeakDetected' <=> TrueElapsedExceedsDebounce)]_vars

\* armed by a sample read after millis() wrapped past the last step
C20_Witness ==
    /\ iter.armed /\ stepCount >= 1
    /\ wraps = lastStepWraps + 1 /\ U32Gt(lastStepTime, currentTime)

====
